---------------------------- MODULE Spec2Model ----------------------------
(***************************************************************************)
(* A model of the AQC tutorial notebooks: the Grover search for            *)
(* exactly-1 3-SAT (oracle, phase amplification, driver cell), the Shor    *)
(* notebook (c_amod15, qpe_amod15, the factor-finding loop), the QAOA      *)
(* Max-Cut objective, and the life cycle of the circuits the notebooks     *)
(* build and hand to a backend.                                            *)
(*                                                                         *)
(* A circuit is a sequence of gate records.  A computational-basis state   *)
(* of the qubits is a natural number whose bit q is the value of qubit q.  *)
(* Qubits are numbered in the order the registers are added to the         *)
(* circuit: circuit_input, circuit_output, aux.                            *)
(***************************************************************************)
EXTENDS Integers, Sequences, FiniteSets, TLC

VARIABLES
    o_n,          \* oracle check: number of input variables n
    o_formula,    \* oracle check: exactly_1_3_sat_formula
    o_init,       \* oracle check: basis state before the oracle is applied
    o_basis,      \* oracle check: current basis state
    o_pc          \* oracle check: "start", "computed", "marked", "done", or "idle"

oracleVars == <<o_n, o_formula, o_init, o_basis, o_pc>>

VARIABLES
    circs,        \* the circuit objects created so far: object id -> gate sequence
    handed        \* the circuit objects that were handed to a backend

storeVars == <<circs, handed>>

VARIABLES
    g_pc,         \* Grover notebook: the statement to run next
    g_cell,       \* Grover notebook: the driver cell being run (1 or 2)
    g_t,          \* Grover notebook: loop variable t of "for t in range(T)"
    g_j,          \* Grover notebook: loop variable j of the measurement loop
    g_calls,      \* Grover notebook: the calls the running driver cell made so far
    g_amp,        \* backend: amplitudes, as integers scaled by sqrt(2)^g_hcount
    g_hcount,     \* backend: number of Hadamard gates applied so far
    g_step,       \* backend: number of instructions of the circuit already run
    g_prob        \* result of cell 1: weight of every classical outcome

groverVars == <<g_pc, g_cell, g_t, g_j, g_calls, g_amp, g_hcount, g_step, g_prob>>

VARIABLES
    am_a,         \* c_amod15 check: a
    am_power,     \* c_amod15 check: power
    am_y,         \* c_amod15 check: value of the 4-qubit register before the gate
    am_out,       \* c_amod15 check: value of the register after the gate
    am_pc         \* c_amod15 check: "start", "done", "error" or "idle"

amodVars == <<am_a, am_power, am_y, am_out, am_pc>>

VARIABLES
    s_a,          \* Shor notebook: a
    s_pc,         \* Shor notebook: "loop", "check", "done", "error" or "idle"
    factor_found, \* Shor notebook: factor_found
    attempt,      \* Shor notebook: attempt (kept up to MaxAttempt)
    s_reading,    \* Shor notebook: the register reading, int(readings[0], 2)
    s_r,          \* Shor notebook: r
    s_guesses,    \* Shor notebook: guesses of the last iteration
    s_reported    \* Shor notebook: the factors printed as non-trivial so far

shorVars == <<s_a, s_pc, factor_found, attempt, s_reading, s_r, s_guesses, s_reported>>

VARIABLES
    h_pc,         \* HHL notebook: "create", "build", "execute", "transpile", "run", "end", "idle"
    h_cell        \* HHL notebook: the next circuit-building cell

hhlVars == <<h_pc, h_cell>>

VARIABLES
    q_pc,         \* QAOA cells: "minimize", "create", "run", "result", "run_res", "end", "idle"
    q_evals       \* QAOA cells: calls of execute_circ made by minimize

qaoaVars == <<q_pc, q_evals>>

VARIABLES
    m_G,          \* maxcut_obj check: the graph, [nodes, edges]
    m_x,          \* maxcut_obj check: the bitstring x
    m_obj,        \* maxcut_obj check: the value returned
    m_pc          \* maxcut_obj check: "start", "done" or "idle"

maxcutVars == <<m_G, m_x, m_obj, m_pc>>

VARIABLES
    p_counts,     \* get_psuccess check: counts, a mapping from bitstrings to integers
    p_value,      \* get_psuccess check: the value returned, as <<numerator, denominator>>
    p_pc          \* get_psuccess check: "start", "done", "raised" or "idle"

psuccessVars == <<p_counts, p_value, p_pc>>

VARIABLES
    f_fetch,      \* financial-data cell: what the body of the try statement does
    f_out,        \* financial-data cell: the lines printed
    f_pc          \* financial-data cell: "try", "except", "done", "raised" or "idle"

financeVars == <<f_fetch, f_out, f_pc>>

VARIABLES
    caught        \* the exceptions handled so far: <<handler site, exception>>

errVars == <<caught>>

VARIABLES
    e_G,          \* compute_expectation check: the graph
    e_counts,     \* compute_expectation check: counts.items(), <<bitstring, count>> pairs
    e_value,      \* compute_expectation check: the value returned, <<avg, sum_count>>
    e_pc          \* compute_expectation check: "start", "done", "raised" or "idle"

expectVars == <<e_G, e_counts, e_value, e_pc>>

VARIABLES
    n_pc,         \* noise notebook: index of the statement to run next in its cell
    n_cell,       \* noise notebook: the cell being run (1, 2 or 3; 0 when idle)
    n_env,        \* noise notebook: global name -> source line of the object bound to it
    n_iter,       \* noise notebook: cost evaluations made by the running cell
    n_last        \* noise notebook: the last evaluation of the ansatz

noiseVars == <<n_pc, n_cell, n_env, n_iter, n_last>>

VARIABLES
    x_a,          \* qpe_amod15 check: a
    x_x,          \* qpe_amod15 check: basis pattern of the counting qubits
    x_q,          \* qpe_amod15 check: number of controlled gates appended and run
    x_reg,        \* qpe_amod15 check: value of the 4-qubit target register
    x_pc          \* qpe_amod15 check: "prepare", "gates", "done" or "idle"

qpeVars == <<x_a, x_x, x_q, x_reg, x_pc>>

newVars == <<psuccessVars, financeVars, errVars, expectVars, noiseVars, qpeVars>>

vars == <<oracleVars, storeVars, groverVars, amodVars, shorVars, hhlVars, qaoaVars,
          maxcutVars, newVars>>

---------------------------------------------------------------------------
(* Bounds of the model *)

MaxN == 4               \* largest number of input variables explored
MaxPower == 4           \* largest power given to c_amod15
MaxAttempt == 3         \* attempt is counted up to this value, then kept
MaxEvals == 3           \* most calls of execute_circ the optimizer makes
MaxNodes == 4           \* most nodes of a graph given to maxcut_obj
MaxCount == 2           \* largest count of one bitstring in a counts mapping
MaxItems == 2           \* most bitstrings in the counts given to compute_expectation
MaxIter == 5            \* iterations of minimizeSPSA explored (niter_spsa in the notebook)

---------------------------------------------------------------------------
(* Arithmetic helpers *)

RECURSIVE Pow(_, _)
Pow(b, e) == IF e = 0 THEN 1 ELSE b * Pow(b, e - 1)

Abs(i) == IF i < 0 THEN -i ELSE i

RECURSIVE Gcd(_, _)
(* math.gcd *)
Gcd(x, y) == IF y = 0 THEN Abs(x) ELSE Gcd(y, x % y)

RECURSIVE Repeat(_, _)
Repeat(seq, k) == IF k = 0 THEN <<>> ELSE seq \o Repeat(seq, k - 1)

(* 2^q for the qubit indices in use, computed once *)
Pow2 == [q \in 0 .. (MaxN + 5) |-> Pow(2, q)]

Bit(b, q) == (b \div Pow2[q]) % 2

Flip(b, q) == IF Bit(b, q) = 0 THEN b + Pow2[q] ELSE b - Pow2[q]

---------------------------------------------------------------------------
(* Gates: what circuit.x / cx / ccx / h / measure append to a circuit *)

X(t) == [op |-> "x", c1 |-> -1, c2 |-> -1, t |-> t]
H(t) == [op |-> "h", c1 |-> -1, c2 |-> -1, t |-> t]
CX(c, t) == [op |-> "cx", c1 |-> c, c2 |-> -1, t |-> t]
CCX(c, d, t) == [op |-> "ccx", c1 |-> c, c2 |-> d, t |-> t]
Measure(q, cbit) == [op |-> "measure", c1 |-> cbit, c2 |-> -1, t |-> q]
SWAP(a, b) == [op |-> "swap", c1 |-> a, c2 |-> -1, t |-> b]
(* Gates with angles (rz, ry, rx, p, cu3, cp, rzz): the angles are not kept *)
Rot(name, t) == [op |-> name, c1 |-> -1, c2 |-> -1, t |-> t]
CRot(name, c, t) == [op |-> name, c1 |-> c, c2 |-> -1, t |-> t]
Barrier == [op |-> "barrier", c1 |-> -1, c2 |-> -1, t |-> -1]

(* The action of a classical (permutation) gate on a basis state *)
ApplyBasis(g, b) ==
    CASE g.op = "x" -> Flip(b, g.t)
      [] g.op = "cx" -> IF Bit(b, g.c1) = 1 THEN Flip(b, g.t) ELSE b
      [] g.op = "ccx" -> IF Bit(b, g.c1) = 1 /\ Bit(b, g.c2) = 1
                         THEN Flip(b, g.t) ELSE b
      [] g.op = "swap" -> IF Bit(b, g.c1) # Bit(b, g.t)
                          THEN Flip(Flip(b, g.c1), g.t) ELSE b
      [] OTHER -> b

RECURSIVE RunBasis(_, _, _)
RunBasis(gates, i, b) ==
    IF i > Len(gates) THEN b
    ELSE LET after == ApplyBasis(gates[i], b)
         IN IF after >= 0 THEN RunBasis(gates, i + 1, after) ELSE after

RECURSIVE RunTimes(_, _, _)
(* The gates of a loop body run k times in a row, as RunBasis runs the     *)
(* k-fold repetition of the body; evaluated by halves, each half's result  *)
(* computed before the next half starts                                    *)
RunTimes(body, k, b) ==
    IF k = 0 THEN b
    ELSE IF k = 1 THEN RunBasis(body, 1, b)
    ELSE LET half == k \div 2
             first == RunTimes(body, half, b)
         IN IF first >= 0 THEN RunTimes(body, k - half, first) ELSE first

---------------------------------------------------------------------------
(* Register layout of the Grover circuits *)

CircuitInput(j) == j
CircuitOutput(n) == n
Aux(n, k) == n + 1 + k

---------------------------------------------------------------------------
(* oracle(circuit, circuit_input, circuit_output, aux, n, formula) *)

RECURSIVE LiteralGates(_, _, _, _)
LiteralGates(clause, i, n, k) ==
    IF i > Len(clause) THEN <<>>
    ELSE (IF clause[i] > 0
          THEN <<CX(CircuitInput(clause[i] - 1), Aux(n, k))>>
          ELSE <<X(CircuitInput(-clause[i] - 1)),
                 CX(CircuitInput(-clause[i] - 1), Aux(n, k))>>)
         \o LiteralGates(clause, i + 1, n, k)

RECURSIVE FlipBackGates(_, _)
FlipBackGates(clause, i) ==
    IF i > Len(clause) THEN <<>>
    ELSE (IF clause[i] < 0 THEN <<X(CircuitInput(-clause[i] - 1))>> ELSE <<>>)
         \o FlipBackGates(clause, i + 1)

AllTrueGatesMut(n, num_clauses, k) ==
    <<CCX(CircuitInput(0), CircuitInput(1), Aux(n, num_clauses)),
      CCX(CircuitInput(2), Aux(n, num_clauses), Aux(n, k))>>

(* "Flip aux[k] if all literals are true, using ... aux[num_clauses]",   *)
(* then "flip back ... ancilla"                                           *)
AllTrueGates(n, num_clauses, k) ==
    <<CCX(CircuitInput(0), CircuitInput(1), Aux(n, num_clauses)),
      CCX(CircuitInput(2), Aux(n, num_clauses), Aux(n, k)),
      CCX(CircuitInput(0), CircuitInput(1), Aux(n, num_clauses))>>

ClauseGates(formula, n, k) ==
    LiteralGates(formula[k + 1], 1, n, k)
    \o AllTrueGates(n, Len(formula), k)
    \o FlipBackGates(formula[k + 1], 1)

RECURSIVE ClauseLoop(_, _, _)
ClauseLoop(formula, n, k) ==
    IF k >= Len(formula) THEN <<>>
    ELSE ClauseGates(formula, n, k) \o ClauseLoop(formula, n, k + 1)

(* The first "for (k, clause) in enumerate(...)" loop *)
OracleCompute(formula, n) == ClauseLoop(formula, n, 0)

OracleMarkMut(formula, n) ==
    LET num_clauses == Len(formula) IN
    CASE num_clauses = 1 -> <<CX(Aux(n, 0), CircuitOutput(n))>>
      [] num_clauses = 2 -> <<CX(Aux(n, 0), CircuitOutput(n))>>
      [] num_clauses = 3 ->
            <<CCX(Aux(n, 0), Aux(n, 1), Aux(n, num_clauses)),
              CCX(Aux(n, 2), Aux(n, num_clauses), CircuitOutput(n)),
              CCX(Aux(n, 0), Aux(n, 1), Aux(n, num_clauses))>>

(* The if / elif chain on num_clauses *)
OracleMark(formula, n) ==
    LET num_clauses == Len(formula) IN
    CASE num_clauses = 1 -> <<CX(Aux(n, 0), CircuitOutput(n))>>
      [] num_clauses = 2 -> <<CCX(Aux(n, 0), Aux(n, 1), CircuitOutput(n))>>
      [] num_clauses = 3 ->
            <<CCX(Aux(n, 0), Aux(n, 1), Aux(n, num_clauses)),
              CCX(Aux(n, 2), Aux(n, num_clauses), CircuitOutput(n)),
              CCX(Aux(n, 0), Aux(n, 1), Aux(n, num_clauses))>>

OracleUncomputeMut(formula, n) == <<>>

(* The second loop, "Flip back any auxiliary qubits" *)
OracleUncompute(formula, n) == ClauseLoop(formula, n, 0)

Oracle(formula, n) ==
    OracleCompute(formula, n) \o OracleMark(formula, n)
    \o OracleUncompute(formula, n)

---------------------------------------------------------------------------
(* Inputs of the oracle check *)

NotebookFormula == <<<<1, 2, -3>>, <<-1, -2, -3>>, <<-1, 2, 3>>>>

Literals(n) == ((-n) .. n) \ {0}

(* Clauses of three nonzero literals of magnitude <= n, the variables in  *)
(* nondecreasing order (repeated variables and every sign order included) *)
Clauses(n) ==
    {c \in Literals(n) \X Literals(n) \X Literals(n) :
        Abs(c[1]) <= Abs(c[2]) /\ Abs(c[2]) <= Abs(c[3])}

SignedClauses == {<<a, b, c>> : a \in {-1, 1}, b \in {-2, 2}, c \in {-3, 3}}

(* Clauses naming each of the variables 1, 2, 3 once, in any order *)
PermutedClauses ==
    {c \in Literals(3) \X Literals(3) \X Literals(3) :
        {Abs(c[1]), Abs(c[2]), Abs(c[3])} = {1, 2, 3}}

(* Formulas of 1 to 3 clauses: the notebook formula cut to m clauses with *)
(* any one clause replaced by any clause over n variables, and, for       *)
(* n = 3, every formula whose clauses are sign patterns of <<1, 2, 3>>,   *)
(* and the notebook formula with one clause replaced by a clause naming   *)
(* the three variables in another order.                                  *)
Formulas(n) ==
    {[i \in 1 .. mp[1] |-> IF i = mp[2] THEN c ELSE NotebookFormula[i]] :
        mp \in {q \in (1 .. 3) \X (1 .. 3) : q[2] <= q[1]},
        c \in Clauses(n) \cup (IF n = 3 THEN PermutedClauses ELSE {})}
    \cup (IF n = 3 THEN UNION {[1 .. m -> SignedClauses] : m \in 1 .. 3} ELSE {})

---------------------------------------------------------------------------
(* Exactly-1 satisfaction, the predicate the oracle is documented to mark *)

LiteralTrue(literal, x) ==
    IF literal > 0 THEN Bit(x, literal - 1) = 1 ELSE Bit(x, -literal - 1) = 0

TrueCount(clause, x) == Cardinality({i \in 1 .. Len(clause) : LiteralTrue(clause[i], x)})

ExactlyOne(formula, x) == \A k \in 1 .. Len(formula) : TrueCount(formula[k], x) = 1

DistinctVars(formula) ==
    \A k \in 1 .. Len(formula) :
        Cardinality({Abs(formula[k][i]) : i \in 1 .. 3}) = 3

InputOf(b, n) == b % Pow2[n]

---------------------------------------------------------------------------
(* Specification of the oracle on basis states *)

OracleIdle ==
    /\ o_n = 0 /\ o_formula = <<>> /\ o_init = 0 /\ o_basis = 0 /\ o_pc = "idle"

OracleStart ==
    /\ o_n \in 3 .. MaxN
    /\ o_formula \in Formulas(o_n)
    /\ o_init \in 0 .. (Pow2[o_n + 1] - 1)   \* inputs and output; aux = 0
    /\ o_basis = o_init
    /\ o_pc = "start"

ApplyCompute ==
    /\ o_pc = "start"
    /\ o_basis' = RunBasis(OracleCompute(o_formula, o_n), 1, o_basis)
    /\ o_pc' = "computed"
    /\ UNCHANGED <<o_n, o_formula, o_init, storeVars, groverVars, amodVars, shorVars,
                   hhlVars, qaoaVars, maxcutVars, newVars>>

ApplyMark ==
    /\ o_pc = "computed"
    /\ o_basis' = RunBasis(OracleMark(o_formula, o_n), 1, o_basis)
    /\ o_pc' = "marked"
    /\ UNCHANGED <<o_n, o_formula, o_init, storeVars, groverVars, amodVars, shorVars,
                   hhlVars, qaoaVars, maxcutVars, newVars>>

ApplyUncompute ==
    /\ o_pc = "marked"
    /\ o_basis' = RunBasis(OracleUncompute(o_formula, o_n), 1, o_basis)
    /\ o_pc' = "done"
    /\ UNCHANGED <<o_n, o_formula, o_init, storeVars, groverVars, amodVars, shorVars,
                   hhlVars, qaoaVars, maxcutVars, newVars>>

OracleNext == ApplyCompute \/ ApplyMark \/ ApplyUncompute

---------------------------------------------------------------------------
(* The circuit objects of the notebooks.  An object id is <<name, k>>.     *)

StoreInit == circs = <<>> /\ handed = {}

(* QuantumCircuit(): a new, empty circuit object *)
NewCircuit(id) == circs' = circs @@ (id :> <<>>)

(* circuit.<gate>(...): the instructions are appended to the object *)
Append_(id, gates) == circs' = [circs EXCEPT ![id] = @ \o gates]

---------------------------------------------------------------------------
(* input_state, n_controlled_Z, phase_amplification *)

RECURSIVE HAll(_, _)
(* "for j in range(n): circuit.h(circuit_input[j])" from j on *)
HAll(j, n) == IF j >= n THEN <<>> ELSE <<H(CircuitInput(j))>> \o HAll(j + 1, n)

RECURSIVE XAll(_, _)
(* "for j in range(n): circuit.x(circuit_input[j])" from j on *)
XAll(j, n) == IF j >= n THEN <<>> ELSE <<X(CircuitInput(j))>> \o XAll(j + 1, n)

InputState(n) ==
    HAll(0, n) \o <<X(CircuitOutput(n)), H(CircuitOutput(n))>>

NControlledZ(controls, target) ==
    CASE Len(controls) = 1 -> <<H(target), CX(controls[1], target), H(target)>>
      [] Len(controls) = 2 ->
            <<H(target), CCX(controls[1], controls[2], target), H(target)>>
      [] Len(controls) = 0 -> <<>>
      \* more than 2 controls: ValueError, no CASE arm

PhaseAmplificationMut(n) ==
    HAll(0, n) \o XAll(0, n) \o XAll(0, n) \o HAll(0, n)

PhaseAmplification(n) ==
    HAll(0, n)
    \o XAll(0, n)
    \o NControlledZ([j \in 1 .. (n - 1) |-> CircuitInput(j - 1)], CircuitInput(n - 1))
    \o XAll(0, n)
    \o HAll(0, n)

(* The second driver cell's variant, without the n-controlled Z *)
PseudoPhaseAmplification(n) ==
    HAll(0, n) \o XAll(0, n) \o XAll(0, n) \o HAll(0, n)

---------------------------------------------------------------------------
(* The backend's simulation of a circuit on amplitudes.  All amplitudes    *)
(* share the factor sqrt(2)^(-hcount), so they are kept as integers.       *)

N1 == 3                 \* n of driver cell 1

(* The qubits of driver cell 1: n inputs, 1 output, len(formula) + 1 aux *)
GroverQubits == N1 + 1 + (Len(NotebookFormula) + 1)

Basis == 0 .. (Pow2[GroverQubits] - 1)

ApplyAmp(g, amp) ==
    CASE g.op = "h" ->
            [b \in Basis |-> IF Bit(b, g.t) = 0
                             THEN amp[b] + amp[Flip(b, g.t)]
                             ELSE amp[Flip(b, g.t)] - amp[b]]
      [] g.op \in {"x", "cx", "ccx"} ->
            \* a permutation gate that is its own inverse
            [b \in Basis |-> amp[ApplyBasis(g, b)]]
      [] OTHER -> amp

(* The measure instructions of a circuit *)
Measures(circuit) == {circuit[i] : i \in {i \in 1 .. Len(circuit) : circuit[i].op = "measure"}}

RECURSIVE SumSq(_, _)
SumSq(amp, S) ==
    IF S = {} THEN 0
    ELSE LET b == CHOOSE b \in S : TRUE IN amp[b] * amp[b] + SumSq(amp, S \ {b})

(* Weight of classical outcome y: classical bit m.c1 holds qubit m.t *)
OutcomeWeight(circuit, amp, y) ==
    SumSq(amp, {b \in Basis : \A m \in Measures(circuit) : Bit(b, m.t) = Bit(y, m.c1)})

---------------------------------------------------------------------------
(* The Grover notebook: driver cell 1 (n = 3, T = 3) and driver cell 2     *)
(* (n = 19, T = 100, pseudo_phase_amplification, no input_state)           *)

T1 == 3                 \* T of driver cell 1
N2 == 19                \* n of driver cell 2
T2 == 100               \* T of driver cell 2

GroverN == IF g_cell = 1 THEN N1 ELSE N2
GroverT == IF g_cell = 1 THEN T1 ELSE T2
GroverObj == <<"grover", g_cell>>

GroverIdle ==
    /\ g_pc = "idle" /\ g_cell = 0 /\ g_t = 0 /\ g_j = 0 /\ g_calls = <<>>
    /\ g_amp = <<>> /\ g_hcount = 0 /\ g_step = 0 /\ g_prob = <<>>

GroverStart ==
    /\ g_pc = "create" /\ g_cell = 1 /\ g_t = 0 /\ g_j = 0 /\ g_calls = <<>>
    /\ g_amp = <<>> /\ g_hcount = 0 /\ g_step = 0 /\ g_prob = <<>>

(* grover = QuantumCircuit(); grover.add_register(...) *)
GroverCreate ==
    /\ g_pc = "create"
    /\ NewCircuit(GroverObj)
    /\ g_pc' = IF g_cell = 1 THEN "input_state" ELSE "loop"
    /\ g_t' = 0 /\ g_j' = 0 /\ g_calls' = <<>>
    /\ UNCHANGED <<handed, g_cell, g_amp, g_hcount, g_step, g_prob, oracleVars, amodVars, shorVars, hhlVars, qaoaVars, maxcutVars, newVars>>

GroverInputState ==
    /\ g_pc = "input_state"
    /\ Append_(GroverObj, InputState(GroverN))
    /\ g_calls' = Append(g_calls, "input_state")
    /\ g_pc' = "loop"
    /\ UNCHANGED <<handed, g_cell, g_t, g_j, g_amp, g_hcount, g_step, g_prob, oracleVars, amodVars, shorVars, hhlVars, qaoaVars, maxcutVars, newVars>>

GroverLoopMut ==
    /\ g_pc = "loop"
    /\ g_pc' = IF g_t < GroverT - 1 THEN "oracle" ELSE "measure"
    /\ UNCHANGED <<storeVars, g_cell, g_t, g_j, g_calls, g_amp, g_hcount, g_step,
                   g_prob, oracleVars, amodVars, shorVars, hhlVars, qaoaVars, maxcutVars, newVars>>

(* "for t in range(T)": loop test *)
GroverLoop ==
    /\ g_pc = "loop"
    /\ g_pc' = IF g_t < GroverT THEN "oracle" ELSE "measure"
    /\ UNCHANGED <<storeVars, g_cell, g_t, g_j, g_calls, g_amp, g_hcount, g_step,
                   g_prob, oracleVars, amodVars, shorVars, hhlVars, qaoaVars, maxcutVars, newVars>>

GroverOracle ==
    /\ g_pc = "oracle"
    /\ Append_(GroverObj, Oracle(NotebookFormula, GroverN))
    /\ g_calls' = Append(g_calls, "oracle")
    /\ g_pc' = "phase_amplification"
    /\ UNCHANGED <<handed, g_cell, g_t, g_j, g_amp, g_hcount, g_step, g_prob, oracleVars, amodVars, shorVars, hhlVars, qaoaVars, maxcutVars, newVars>>

GroverPhaseAmplification ==
    /\ g_pc = "phase_amplification"
    /\ Append_(GroverObj, IF g_cell = 1 THEN PhaseAmplification(GroverN)
                          ELSE PseudoPhaseAmplification(GroverN))
    /\ g_calls' = Append(g_calls, IF g_cell = 1 THEN "phase_amplification"
                                  ELSE "pseudo_phase_amplification")
    /\ g_t' = g_t + 1
    /\ g_pc' = "loop"
    /\ UNCHANGED <<handed, g_cell, g_j, g_amp, g_hcount, g_step, g_prob, oracleVars, amodVars, shorVars, hhlVars, qaoaVars, maxcutVars, newVars>>

(* "for j in range(n): grover.measure(circuit_input[j], ans[j])" *)
GroverMeasure ==
    /\ g_pc = "measure"
    /\ IF g_j < GroverN
       THEN /\ Append_(GroverObj, <<Measure(CircuitInput(g_j), g_j)>>)
            /\ g_calls' = Append(g_calls, "measure")
            /\ g_j' = g_j + 1
            /\ g_pc' = "measure"
       ELSE /\ g_pc' = "execute"
            /\ UNCHANGED <<circs, g_calls, g_j>>
    /\ UNCHANGED <<handed, g_cell, g_t, g_amp, g_hcount, g_step, g_prob, oracleVars, amodVars, shorVars, hhlVars, qaoaVars, maxcutVars, newVars>>

(* job = execute([grover], backend=backend, shots=1024) *)
GroverExecute ==
    /\ g_pc = "execute"
    /\ handed' = handed \cup {GroverObj}
    /\ g_amp' = [b \in Basis |-> IF b = 0 THEN 1 ELSE 0]
    /\ g_hcount' = 0
    /\ g_step' = 0
    /\ g_pc' = IF g_cell = 1 THEN "running" ELSE "end"
    /\ UNCHANGED <<circs, g_cell, g_t, g_j, g_calls, g_prob, oracleVars, amodVars, shorVars, hhlVars, qaoaVars, maxcutVars, newVars>>

(* The backend runs the next instruction of the circuit of cell 1 *)
GroverRunStep ==
    /\ g_pc = "running"
    /\ g_step < Len(circs[GroverObj])
    /\ LET g == circs[GroverObj][g_step + 1] IN
         /\ g_amp' = ApplyAmp(g, g_amp)
         /\ g_hcount' = IF g.op = "h" THEN g_hcount + 1 ELSE g_hcount
    /\ g_step' = g_step + 1
    /\ UNCHANGED <<storeVars, g_pc, g_cell, g_t, g_j, g_calls, g_prob, oracleVars, amodVars, shorVars, hhlVars, qaoaVars, maxcutVars, newVars>>

(* result = job.result(); counts = result.get_counts(grover); then on to cell 2 *)
GroverGetCounts ==
    /\ g_pc = "running"
    /\ g_step = Len(circs[GroverObj])
    /\ g_prob' = [y \in 0 .. (Pow2[GroverN] - 1) |->
                    OutcomeWeight(circs[GroverObj], g_amp, y)]
    /\ g_pc' = "done"
    /\ UNCHANGED <<storeVars, g_cell, g_t, g_j, g_calls, g_amp, g_hcount, g_step,
                   oracleVars, amodVars, shorVars, hhlVars, qaoaVars, maxcutVars, newVars>>

(* Running the next code cell: the second driver cell rebinds grover *)
GroverNextCell ==
    /\ g_pc = "done"
    /\ g_cell' = 2
    /\ g_pc' = "create"
    /\ UNCHANGED <<storeVars, g_t, g_j, g_calls, g_amp, g_hcount, g_step, g_prob,
                   oracleVars, amodVars, shorVars, hhlVars, qaoaVars, maxcutVars, newVars>>

GroverNext ==
    \/ GroverCreate \/ GroverInputState \/ GroverLoop \/ GroverOracle
    \/ GroverPhaseAmplification \/ GroverMeasure \/ GroverExecute
    \/ GroverRunStep \/ GroverGetCounts \/ GroverNextCell

---------------------------------------------------------------------------
(* c_amod15(a, power): the gates of U before U.control()                   *)

ValidA == {2, 4, 7, 8, 11, 13}

AmodIterationMut(a) ==
    (IF a \in {2, 13} THEN <<SWAP(2, 3), SWAP(1, 2), SWAP(0, 1)>> ELSE <<>>)
    \o (IF a \in {7, 8} THEN <<SWAP(0, 1), SWAP(1, 2), SWAP(2, 3)>> ELSE <<>>)
    \o (IF a \in {4, 11} THEN <<SWAP(1, 3), SWAP(0, 2)>> ELSE <<>>)
    \o (IF a \in {7, 11, 13} THEN <<X(0), X(1), X(2), X(3)>> ELSE <<>>)

(* The body of "for iteration in range(power)" *)
AmodIteration(a) ==
    (IF a \in {2, 13} THEN <<SWAP(0, 1), SWAP(1, 2), SWAP(2, 3)>> ELSE <<>>)
    \o (IF a \in {7, 8} THEN <<SWAP(2, 3), SWAP(1, 2), SWAP(0, 1)>> ELSE <<>>)
    \o (IF a \in {4, 11} THEN <<SWAP(1, 3), SWAP(0, 2)>> ELSE <<>>)
    \o (IF a \in {7, 11, 13} THEN <<X(0), X(1), X(2), X(3)>> ELSE <<>>)

CAmod15(a, power) == Repeat(AmodIteration(a), power)

(* The register value of a basis state of the 4 gate qubits and back: gate *)
(* qubit 3 is the least significant bit (qpe_amod15 prepares |1> by an X   *)
(* on qubit 3 + n_count)                                                   *)
Rev4(v) == 8 * Bit(v, 0) + 4 * Bit(v, 1) + 2 * Bit(v, 2) + Bit(v, 3)

(* The value the gate sequence of c_amod15(a, power) maps value y to *)
AmodValue(a, power, y) == Rev4(RunBasis(CAmod15(a, power), 1, Rev4(y)))

AmodIdle ==
    /\ am_a = 0 /\ am_power = 0 /\ am_y = 0 /\ am_out = 0 /\ am_pc = "idle"

AmodStart ==
    /\ am_a \in 2 .. 14
    /\ am_power \in 0 .. MaxPower
    /\ am_y \in 0 .. 15
    /\ am_out = am_y
    /\ am_pc = "start"

AmodRaiseMut ==
    /\ am_pc = "start"
    /\ am_a \notin ValidA
    /\ am_pc' = "done"
    /\ caught' = Append(caught, <<"c_amod15", "ValueError">>)
    /\ UNCHANGED <<am_a, am_power, am_y, am_out, oracleVars, storeVars, groverVars,
                   shorVars, hhlVars, qaoaVars, maxcutVars, psuccessVars, financeVars,
                   expectVars, noiseVars, qpeVars>>

(* if a not in [2,4,7,8,11,13]: raise ValueError *)
AmodRaise ==
    /\ am_pc = "start"
    /\ am_a \notin ValidA
    /\ am_pc' = "error"
    /\ UNCHANGED <<am_a, am_power, am_y, am_out, oracleVars, storeVars, groverVars,
                   shorVars, hhlVars, qaoaVars, maxcutVars, newVars>>

AmodApply ==
    /\ am_pc = "start"
    /\ am_a \in ValidA
    /\ am_out' = AmodValue(am_a, am_power, am_y)
    /\ am_pc' = "done"
    /\ UNCHANGED <<am_a, am_power, am_y, oracleVars, storeVars, groverVars, shorVars,
                   hhlVars, qaoaVars, maxcutVars, newVars>>

AmodNext == AmodRaise \/ AmodApply

---------------------------------------------------------------------------
(* The Shor notebook: qpe_amod15 and the factor-finding loop               *)

N == 15
NCount == 8

(* The order of a mod 15 as the gates compute it: the period of the orbit  *)
(* of |1> under c_amod15(a, 1)                                             *)
Order == [a \in ValidA |->
            CHOOSE r \in 1 .. N :
                /\ AmodValue(a, r, 1) = 1
                /\ \A q \in 1 .. (r - 1) : AmodValue(a, q, 1) # 1]

(* The readings the noiseless simulator can return for one shot of the     *)
(* phase-estimation circuit: the target register holds a uniform mix of    *)
(* the eigenstates of U with phases s/r, and r divides 2^n_count, so the   *)
(* counting register reads exactly 2^n_count * s / r for some s in 0..r-1  *)
IsReading(a, k) ==
    /\ k \in 0 .. (Pow(2, NCount) - 1)
    /\ (k * Order[a]) % Pow(2, NCount) = 0

RECURSIVE LimitLoop(_, _, _, _, _, _, _, _, _)
(* The loop of Fraction.limit_denominator: returns the bound it ends with  *)
LimitLoop(num, den, max_denominator, p0, q0, p1, q1, n, d) ==
    LET a == n \div d
        q2 == q0 + a * q1 IN
    IF q2 > max_denominator
    THEN LET k == (max_denominator - q0) \div q1
             b1n == p0 + k * p1
             b1d == q0 + k * q1
             \* abs(bound2 - self) <= abs(bound1 - self), cross-multiplied
             closer2 == Abs(p1 * den - num * q1) * b1d
                            <= Abs(b1n * den - num * b1d) * q1
         IN IF closer2 THEN <<p1, q1>> ELSE <<b1n, b1d>>
    ELSE LimitLoop(num, den, max_denominator, p1, q1, p0 + a * p1, q2, d, n - a * d)

(* Fraction(num / den).limit_denominator(max_denominator), in lowest terms *)
LimitDenominator(num, den, max_denominator) ==
    LET g == Gcd(num, den)
        n0 == num \div g
        d0 == den \div g
        f == IF d0 <= max_denominator THEN <<n0, d0>>
             ELSE LimitLoop(n0, d0, max_denominator, 0, 1, 1, 0, n0, d0)
        h == Gcd(f[1], f[2])
    IN <<f[1] \div h, f[2] \div h>>

GuessesMut(a, r) == <<Gcd(Pow(a, r) - 1, N), Gcd(Pow(a, r) + 1, N)>>

(* guesses = [gcd(a**(r//2)-1, N), gcd(a**(r//2)+1, N)] *)
Guesses(a, r) == <<Gcd(Pow(a, r \div 2) - 1, N), Gcd(Pow(a, r \div 2) + 1, N)>>

IsFactorMutA(guess) == (N % guess) = 0

IsFactorMutB(guess) == guess \notin {1, N} /\ (guess % N) = 0

(* guess not in [1,N] and (N % guess) == 0 *)
IsFactor(guess) == guess \notin {1, N} /\ (N % guess) = 0

ShorIdle ==
    /\ s_a = 0 /\ s_pc = "idle" /\ factor_found = FALSE /\ attempt = 0
    /\ s_reading = 0 /\ s_r = 0 /\ s_guesses = <<>> /\ s_reported = <<>>

(* a = randint(2, 15); factor_found = False; attempt = 0 *)
ShorStart ==
    /\ s_a \in 2 .. (N - 1)
    /\ s_pc = "loop" /\ factor_found = FALSE /\ attempt = 0
    /\ s_reading = 0 /\ s_r = 0 /\ s_guesses = <<>> /\ s_reported = <<>>

NextAttempt == IF attempt < MaxAttempt THEN attempt + 1 ELSE attempt

(* attempt += 1; phase = qpe_amod15(a); frac = ...; r = frac.denominator *)
ShorQpe(reading) ==
    /\ s_pc = "loop"
    /\ ~factor_found
    /\ s_a \in ValidA
    /\ IsReading(s_a, reading)
    /\ attempt' = NextAttempt
    /\ s_reading' = reading
    /\ s_r' = LimitDenominator(reading, Pow(2, NCount), N)[2]
    /\ s_pc' = "check"
    /\ UNCHANGED <<s_a, factor_found, s_guesses, s_reported, oracleVars, storeVars,
                   groverVars, amodVars, hhlVars, qaoaVars, maxcutVars, newVars>>

ShorQpeZero == ShorQpe(0)

ShorQpeNonZero == \E reading \in 1 .. (Pow(2, NCount) - 1) : ShorQpe(reading)

(* c_amod15 raises ValueError inside qpe_amod15: the cell stops *)
ShorQpeRaise ==
    /\ s_pc = "loop"
    /\ ~factor_found
    /\ s_a \notin ValidA
    /\ attempt' = NextAttempt
    /\ s_pc' = "error"
    /\ UNCHANGED <<s_a, factor_found, s_reading, s_r, s_guesses, s_reported,
                   oracleVars, storeVars, groverVars, amodVars, hhlVars, qaoaVars, maxcutVars, newVars>>

(* if phase != 0: guesses = ...; for guess in guesses: ... *)
ShorCheck ==
    /\ s_pc = "check"
    /\ IF s_reading # 0
       THEN LET guesses == Guesses(s_a, s_r)
                found == SelectSeq(guesses, IsFactor) IN
            /\ s_guesses' = guesses
            /\ s_reported' = s_reported \o found
            /\ factor_found' = (factor_found \/ found # <<>>)
       ELSE UNCHANGED <<s_guesses, s_reported, factor_found>>
    /\ s_pc' = "loop"
    /\ UNCHANGED <<s_a, attempt, s_reading, s_r, oracleVars, storeVars, groverVars,
                   amodVars, hhlVars, qaoaVars, maxcutVars, newVars>>

(* "while not factor_found" ends *)
ShorExit ==
    /\ s_pc = "loop"
    /\ factor_found
    /\ s_pc' = "done"
    /\ UNCHANGED <<s_a, factor_found, attempt, s_reading, s_r, s_guesses, s_reported,
                   oracleVars, storeVars, groverVars, amodVars, hhlVars, qaoaVars, maxcutVars, newVars>>

ShorNext == ShorQpeZero \/ ShorQpeNonZero \/ ShorQpeRaise \/ ShorCheck \/ ShorExit

---------------------------------------------------------------------------
(* The HHL notebook: the cells that build hhl, then run it                 *)

HhlObj == <<"hhl", 1>>
MappedObj == <<"mapped_circuit", 1>>

(* The instructions each building cell appends to hhl *)
HhlCells ==
    << <<H(1), H(2), CRot("cu3", 2, 3), CRot("cp", 2, 3), CX(2, 3),
         CRot("cp", 2, 3), CX(2, 3), CX(1, 3)>>,
       <<SWAP(1, 2), H(2), CRot("cp", 1, 2), H(1)>>,
       <<SWAP(1, 2)>>,
       <<CRot("cu3", 1, 0), CRot("cu3", 2, 0)>>,
       <<SWAP(1, 2), H(1), CRot("cp", 1, 2), H(2), SWAP(2, 1), CX(1, 3), CX(2, 3),
         CRot("cp", 2, 3), CX(2, 3), CRot("cp", 2, 3), CRot("cu3", 2, 3), H(2), H(1)>>,
       <<Rot("rz", 4), Rot("p", 4), H(4), Rot("ry", 4), Rot("rz", 4), H(5),
         CX(4, 3), CCX(5, 3, 4), CX(4, 3), H(5), Barrier, Measure(0, 0),
         Measure(5, 1)>> >>

HhlIdle == h_pc = "idle" /\ h_cell = 0

HhlStart == h_pc = "create" /\ h_cell = 0

(* hhl = QuantumCircuit(q, c) *)
HhlCreate ==
    /\ h_pc = "create"
    /\ NewCircuit(HhlObj)
    /\ h_pc' = "build"
    /\ h_cell' = 1
    /\ UNCHANGED <<handed, oracleVars, groverVars, amodVars, shorVars, qaoaVars,
                   maxcutVars, newVars>>

(* The next building cell *)
HhlBuild ==
    /\ h_pc = "build"
    /\ Append_(HhlObj, HhlCells[h_cell])
    /\ h_cell' = h_cell + 1
    /\ h_pc' = IF h_cell = Len(HhlCells) THEN "execute" ELSE "build"
    /\ UNCHANGED <<handed, oracleVars, groverVars, amodVars, shorVars, qaoaVars,
                   maxcutVars, newVars>>

(* job = execute(hhl, backend, shots=1024) *)
HhlExecute ==
    /\ h_pc = "execute"
    /\ handed' = handed \cup {HhlObj}
    /\ h_pc' = "transpile"
    /\ UNCHANGED <<circs, h_cell, oracleVars, groverVars, amodVars, shorVars,
                   qaoaVars, maxcutVars, newVars>>

(* mapped_circuit = transpile(hhl, backend=backend): a new circuit object; *)
(* its instructions are kept as those of hhl                               *)
HhlTranspile ==
    /\ h_pc = "transpile"
    /\ circs' = circs @@ (MappedObj :> circs[HhlObj])
    /\ handed' = handed \cup {HhlObj}
    /\ h_pc' = "run"
    /\ UNCHANGED <<h_cell, oracleVars, groverVars, amodVars, shorVars, qaoaVars,
                   maxcutVars, newVars>>

HhlRunMut ==
    /\ h_pc = "run"
    /\ handed' = handed \cup {MappedObj}
    /\ Append_(HhlObj, <<Measure(0, 0)>>)
    /\ h_pc' = "end"
    /\ UNCHANGED <<h_cell, oracleVars, groverVars, amodVars, shorVars, qaoaVars,
                   maxcutVars, newVars>>

(* qobj = assemble(mapped_circuit, ...); job = backend.run(qobj) *)
HhlRun ==
    /\ h_pc = "run"
    /\ handed' = handed \cup {MappedObj}
    /\ h_pc' = "end"
    /\ UNCHANGED <<circs, h_cell, oracleVars, groverVars, amodVars, shorVars,
                   qaoaVars, maxcutVars, newVars>>

HhlNext == HhlCreate \/ HhlBuild \/ HhlExecute \/ HhlTranspile \/ HhlRun

---------------------------------------------------------------------------
(* Max-Cut: the graph of the notebook, maxcut_obj, create_qaoa_circ        *)

CycleGraphMut == [nodes |-> 4, edges |-> <<<<0, 1>>, <<0, 2>>, <<1, 2>>, <<2, 3>>>>]

(* G.edges() of the notebook's graph, in the order networkx lists them *)
CycleGraph == [nodes |-> 4, edges |-> <<<<0, 1>>, <<0, 3>>, <<1, 2>>, <<2, 3>>>>]

RECURSIVE MaxcutLoop(_, _, _, _)
(* "for i, j in G.edges(): if x[i] != x[j]: obj -= 1" from edge e on *)
MaxcutLoop(x, G, e, obj) ==
    IF e > Len(G.edges) THEN obj
    ELSE LET i == G.edges[e][1]
             j == G.edges[e][2] IN
         MaxcutLoop(x, G, e + 1, IF x[i + 1] # x[j + 1] THEN obj - 1 ELSE obj)

MaxcutObjMut(x, G) == -MaxcutLoop(x, G, 1, 0)

(* maxcut_obj(x, G); x is a string, character i at x[i + 1] *)
MaxcutObj(x, G) == MaxcutLoop(x, G, 1, 0)

RECURSIVE RzzGates(_, _)
RzzGates(G, e) ==
    IF e > Len(G.edges) THEN <<>>
    ELSE <<CRot("rzz", G.edges[e][1], G.edges[e][2])>> \o RzzGates(G, e + 1)

RECURSIVE RxGates(_, _)
RxGates(i, nqubits) ==
    IF i >= nqubits THEN <<>> ELSE <<Rot("rx", i)>> \o RxGates(i + 1, nqubits)

RECURSIVE MeasureAll(_, _)
MeasureAll(i, nqubits) ==
    IF i >= nqubits THEN <<>> ELSE <<Measure(i, i)>> \o MeasureAll(i + 1, nqubits)

(* create_qaoa_circ(G, theta) with len(theta) // 2 = p *)
CreateQaoaCirc(G, p) ==
    HAll(0, G.nodes)
    \o Repeat(RzzGates(G, 1) \o RxGates(0, G.nodes), p)
    \o <<Barrier>> \o MeasureAll(0, G.nodes)

(* minimize(expectation, [1.0, 1.0], ...): theta has two entries *)
ThetaLen == 2

QaoaIdle == q_pc = "idle" /\ q_evals = 0

QaoaStart == q_pc = "minimize" /\ q_evals = 0

(* execute_circ(theta): qc = create_qaoa_circ(G, theta) *)
QaoaCreate ==
    /\ q_pc = "minimize"
    /\ q_evals < MaxEvals
    /\ circs' = circs @@ (<<"qc", q_evals + 1>> :> CreateQaoaCirc(CycleGraph, ThetaLen \div 2))
    /\ q_evals' = q_evals + 1
    /\ q_pc' = "run"
    /\ UNCHANGED <<handed, oracleVars, groverVars, amodVars, shorVars, hhlVars,
                   maxcutVars, newVars>>

(* execute_circ(theta): counts = backend.run(qc, ...).result().get_counts() *)
QaoaRun ==
    /\ q_pc = "run"
    /\ handed' = handed \cup {<<"qc", q_evals>>}
    /\ q_pc' = "minimize"
    /\ UNCHANGED <<circs, q_evals, oracleVars, groverVars, amodVars, shorVars,
                   hhlVars, maxcutVars, newVars>>

(* minimize returns; next cell: qc_res = create_qaoa_circ(G, res.x) *)
QaoaCreateRes ==
    /\ q_pc = "minimize"
    /\ q_evals >= 1
    /\ circs' = circs @@ (<<"qc_res", 1>> :> CreateQaoaCirc(CycleGraph, ThetaLen \div 2))
    /\ q_pc' = "run_res"
    /\ UNCHANGED <<handed, q_evals, oracleVars, groverVars, amodVars, shorVars,
                   hhlVars, maxcutVars, newVars>>

(* counts = backend.run(qc_res, seed_simulator=10).result().get_counts() *)
QaoaRunRes ==
    /\ q_pc = "run_res"
    /\ handed' = handed \cup {<<"qc_res", 1>>}
    /\ q_pc' = "end"
    /\ UNCHANGED <<circs, q_evals, oracleVars, groverVars, amodVars, shorVars,
                   hhlVars, maxcutVars, newVars>>

(* The QAOA cells follow the Grover cells in the same notebook *)
QaoaAfterGrover ==
    /\ g_pc = "end"
    /\ q_pc = "idle"
    /\ q_pc' = "minimize"
    /\ UNCHANGED <<storeVars, q_evals, oracleVars, groverVars, amodVars, shorVars,
                   hhlVars, maxcutVars, newVars>>

QaoaNext == QaoaAfterGrover \/ QaoaCreate \/ QaoaRun \/ QaoaCreateRes \/ QaoaRunRes

---------------------------------------------------------------------------
(* maxcut_obj on a graph and a bitstring                                   *)

Pairs(k) == {e \in (0 .. (k - 1)) \X (0 .. (k - 1)) : e[1] < e[2]}

RECURSIVE SeqOfEdges(_)
(* The edges of a set in lexicographic order *)
SeqOfEdges(S) ==
    IF S = {} THEN <<>>
    ELSE LET e == CHOOSE e \in S :
                    \A f \in S : e[1] < f[1] \/ (e[1] = f[1] /\ e[2] <= f[2])
         IN <<e>> \o SeqOfEdges(S \ {e})

Graphs == {[nodes |-> k, edges |-> SeqOfEdges(S)] :
              k \in 2 .. MaxNodes, S \in SUBSET Pairs(MaxNodes)} 

MaxcutIdle == m_G = <<>> /\ m_x = <<>> /\ m_obj = 0 /\ m_pc = "idle"

MaxcutStart ==
    /\ m_G \in {G \in Graphs : \A e \in 1 .. Len(G.edges) : G.edges[e][2] < G.nodes}
            \cup {CycleGraph}
    /\ m_x \in [1 .. m_G.nodes -> {"0", "1"}]
    /\ m_obj = 0
    /\ m_pc = "start"

MaxcutCall ==
    /\ m_pc = "start"
    /\ m_obj' = MaxcutObj(m_x, m_G)
    /\ m_pc' = "done"
    /\ UNCHANGED <<m_G, m_x, oracleVars, storeVars, groverVars, amodVars, shorVars,
                   hhlVars, qaoaVars, newVars>>

MaxcutNext == MaxcutCall

---------------------------------------------------------------------------
(* get_psuccess(counts)                                                    *)

(* The outcome of an expression: a value, or an exception raised; with the *)
(* exceptions that try statements handled on the way                       *)
Ok(v) == [raised |-> "none", value |-> v, handled |-> <<>>]
Raise(exc) == [raised |-> exc, value |-> 0, handled |-> <<>>]

(* counts[key] *)
Lookup(counts, key) ==
    IF key \in DOMAIN counts THEN Ok(counts[key]) ELSE Raise("KeyError")

(* x / y on integers, kept as the pair <<x, y>> *)
Divide(x, y) == IF y = 0 THEN Raise("ZeroDivisionError") ELSE Ok(<<x, y>>)

(* try: v = body / except exc: v = default -- at the handler named site *)
TryExcept(body, exc, default, site) ==
    IF body.raised = exc
    THEN [raised |-> "none", value |-> default, handled |-> <<<<site, exc>>>>]
    ELSE body

GetPsuccessMut(counts) ==
    LET fail == TryExcept(Lookup(counts, "11"), "KeyError", 0, "get_psuccess")
        succ == TryExcept(Lookup(counts, "01"), "ZeroDivisionError", 0, "get_psuccess")
    IN IF fail.raised # "none" THEN fail
       ELSE IF succ.raised # "none" THEN succ
       ELSE LET succ_rotation == succ.value + fail.value
                prob == TryExcept(Divide(succ.value, succ_rotation),
                                  "ZeroDivisionError", <<0, 1>>, "get_psuccess")
            IN [prob EXCEPT !.handled = fail.handled \o succ.handled \o prob.handled]

(* get_psuccess(counts) *)
GetPsuccess(counts) ==
    LET fail == TryExcept(Lookup(counts, "11"), "KeyError", 0, "get_psuccess")
        succ == TryExcept(Lookup(counts, "01"), "KeyError", 0, "get_psuccess")
    IN IF fail.raised # "none" THEN fail
       ELSE IF succ.raised # "none" THEN succ
       ELSE LET succ_rotation == succ.value + fail.value
                prob == TryExcept(Divide(succ.value, succ_rotation),
                                  "ZeroDivisionError", <<0, 1>>, "get_psuccess")
            IN [prob EXCEPT !.handled = fail.handled \o succ.handled \o prob.handled]

(* The keys of the counts of a circuit with two classical bits *)
Keys2 == {"00", "01", "10", "11"}

CountsOver(keys) == UNION {[K -> 0 .. MaxCount] : K \in SUBSET keys}

PsuccessIdle == p_counts = <<>> /\ p_value = <<0, 1>> /\ p_pc = "idle"

PsuccessStart ==
    /\ p_counts \in CountsOver(Keys2)
    /\ p_value = <<0, 1>>
    /\ p_pc = "start"

(* print(get_psuccess(counts)) *)
PsuccessCall ==
    /\ p_pc = "start"
    /\ LET res == GetPsuccess(p_counts) IN
         /\ p_pc' = IF res.raised = "none" THEN "done" ELSE "raised"
         /\ p_value' = IF res.raised = "none" THEN res.value ELSE p_value
         /\ caught' = caught \o res.handled
    /\ UNCHANGED <<p_counts, oracleVars, storeVars, groverVars, amodVars, shorVars,
                   hhlVars, qaoaVars, maxcutVars, financeVars, expectVars, noiseVars,
                   qpeVars>>

PsuccessNext == PsuccessCall

---------------------------------------------------------------------------
(* The financial-data cell                                                 *)

(* What the body of the try statement can do: finish, raise the library's  *)
(* QiskitFinanceError with some text, or raise another exception           *)
FetchOutcomes ==
    {[type |-> "none", text |-> ""],
     [type |-> "QiskitFinanceError", text |-> "Cannot retrieve Wikipedia data."],
     [type |-> "QiskitFinanceError", text |-> "Accessing Wikipedia failed."],
     [type |-> "TypeError", text |-> "missing required argument"]}

FinanceIdle == f_fetch = [type |-> "none", text |-> ""] /\ f_out = <<>> /\ f_pc = "idle"

FinanceStart == f_fetch \in FetchOutcomes /\ f_out = <<>> /\ f_pc = "try"

FinanceFrame ==
    UNCHANGED <<f_fetch, oracleVars, storeVars, groverVars, amodVars, shorVars, hhlVars,
                qaoaVars, maxcutVars, psuccessVars, expectVars, noiseVars, qpeVars>>

FinanceTryMut ==
    /\ f_pc = "try"
    /\ LET res == TryExcept([raised |-> f_fetch.type, value |-> 0, handled |-> <<>>],
                            "QiskitError", 0, "data_fetch") IN
         /\ f_pc' = IF res.raised # "none" THEN "raised"
                    ELSE IF res.handled # <<>> THEN "except" ELSE "done"
         /\ caught' = caught \o res.handled
    /\ UNCHANGED f_out
    /\ FinanceFrame

(* try: wiki = WikipediaDataProvider(...); ... / except QiskitFinanceError as ex *)
FinanceTry ==
    /\ f_pc = "try"
    /\ LET res == TryExcept([raised |-> f_fetch.type, value |-> 0, handled |-> <<>>],
                            "QiskitFinanceError", 0, "data_fetch") IN
         /\ f_pc' = IF res.raised # "none" THEN "raised"
                    ELSE IF res.handled # <<>> THEN "except" ELSE "done"
         /\ caught' = caught \o res.handled
    /\ UNCHANGED f_out
    /\ FinanceFrame

(* print(ex); print("Error retrieving data.") *)
FinanceExcept ==
    /\ f_pc = "except"
    /\ f_out' = f_out \o <<f_fetch.text, "Error retrieving data.">>
    /\ f_pc' = "done"
    /\ UNCHANGED caught
    /\ FinanceFrame

FinanceNext == FinanceTry \/ FinanceExcept

---------------------------------------------------------------------------
(* compute_expectation(counts, G)                                          *)

(* bitstring[::-1] *)
Reverse(bitstring) ==
    [i \in 1 .. Len(bitstring) |-> bitstring[Len(bitstring) + 1 - i]]

ItemObjMut(bitstring, G) == MaxcutObj(bitstring, G)

(* obj = maxcut_obj(bitstring[::-1], G) *)
ItemObj(bitstring, G) == MaxcutObj(Reverse(bitstring), G)

RECURSIVE ExpectLoop(_, _, _, _, _)
(* "for bitstring, count in counts.items()" from item i on; items[i] is    *)
(* <<bitstring, count>>; returns <<avg, sum_count>>                        *)
ExpectLoop(items, G, i, avg, sum_count) ==
    IF i > Len(items) THEN <<avg, sum_count>>
    ELSE LET obj == ItemObj(items[i][1], G) IN
         ExpectLoop(items, G, i + 1, avg + obj * items[i][2], sum_count + items[i][2])

(* compute_expectation(counts, G): avg / sum_count *)
ComputeExpectation(items, G) ==
    LET sums == ExpectLoop(items, G, 1, 0, 0) IN Divide(sums[1], sums[2])

Bitstrings(len) == [1 .. len -> {"0", "1"}]

(* counts.items(): up to MaxItems distinct bitstrings, each with the     *)
(* positive number of shots that gave it                                 *)
ItemsOver(len) ==
    UNION {{items \in [1 .. k -> Bitstrings(len) \X (1 .. MaxCount)] :
               \A i, j \in 1 .. k : i # j => items[i][1] # items[j][1]} :
           k \in 0 .. MaxItems}

ExpectIdle == e_G = <<>> /\ e_counts = <<>> /\ e_value = <<0, 1>> /\ e_pc = "idle"

ExpectStart ==
    /\ e_G \in {G \in Graphs : G.nodes <= 3
                               /\ \A e \in 1 .. Len(G.edges) : G.edges[e][2] < G.nodes}
            \cup {CycleGraph}
    /\ e_counts \in ItemsOver(e_G.nodes)
    /\ e_value = <<0, 1>>
    /\ e_pc = "start"

ExpectCall ==
    /\ e_pc = "start"
    /\ LET res == ComputeExpectation(e_counts, e_G) IN
         /\ e_pc' = IF res.raised = "none" THEN "done" ELSE "raised"
         /\ e_value' = IF res.raised = "none" THEN res.value ELSE e_value
    /\ UNCHANGED <<e_G, e_counts, oracleVars, storeVars, groverVars, amodVars, shorVars,
                   hhlVars, qaoaVars, maxcutVars, psuccessVars, financeVars, errVars,
                   noiseVars, qpeVars>>

ExpectNext == ExpectCall

---------------------------------------------------------------------------
(* The noise notebook                                                      *)

(* The global names the three optimisation cells bind *)
NoiseNames ==
    {"circuit", "dev", "exp_val_circuit", "cost_spsa", "wrapped_cost", "callback_fn"}

Stmt(kind, name, line) == [kind |-> kind, name |-> name, line |-> line]

NoiseCellsMut ==
    << <<Stmt("def", "circuit", 79), Stmt("assign", "dev", 89),
         Stmt("def", "exp_val_circuit", 91), Stmt("qnode", "cost_spsa", 96),
         Stmt("def", "wrapped_cost", 99), Stmt("def", "callback_fn", 102),
         Stmt("run", "minimizeSPSA", 111)>>,
       <<Stmt("def", "circuit", 139), Stmt("assign", "dev", 154),
         Stmt("def", "exp_val_circuit", 156), Stmt("qnode", "cost_spsa", 161),
         Stmt("def", "wrapped_cost", 164), Stmt("def", "callback_fn", 167),
         Stmt("run", "minimizeSPSA", 176)>>,
       <<Stmt("def", "circuit", 207), Stmt("assign", "dev", 211),
         Stmt("def", "exp_val_circuit", 213), Stmt("qnode", "cost_spsa", 218),
         Stmt("def", "wrapped_cost", 221), Stmt("def", "callback_fn", 224),
         Stmt("run", "minimizeSPSA", 233)>> >>

(* The statements of the three cells that bind those names or evaluate    *)
(* the cost, each with the source line of the object it creates: the      *)
(* noise-free cell, the random-noise cell, the CX-depolarizing cell       *)
NoiseCells ==
    << <<Stmt("def", "circuit", 79), Stmt("assign", "dev", 89),
         Stmt("def", "exp_val_circuit", 91), Stmt("qnode", "cost_spsa", 96),
         Stmt("def", "wrapped_cost", 99), Stmt("def", "callback_fn", 102),
         Stmt("run", "minimizeSPSA", 111)>>,
       <<Stmt("def", "circuit", 139), Stmt("assign", "dev", 154),
         Stmt("def", "exp_val_circuit", 156), Stmt("qnode", "cost_spsa", 161),
         Stmt("def", "wrapped_cost", 164), Stmt("def", "callback_fn", 167),
         Stmt("run", "minimizeSPSA", 176)>>,
       <<Stmt("assign", "dev", 211),
         Stmt("def", "exp_val_circuit", 213), Stmt("qnode", "cost_spsa", 218),
         Stmt("def", "wrapped_cost", 221), Stmt("def", "callback_fn", 224),
         Stmt("run", "minimizeSPSA", 233)>> >>

(* The definitions of circuit: whether the ansatz ends with the RX noise  *)
(* rotations (rand_angle = np.pi + np.random.rand())                      *)
AnsatzHasRx(line) == line = 139

(* np.random.rand(), as one of three parts of [0, 1) *)
RandDraws == {"low", "mid", "high"}

(* wrapped_cost evaluated 1 + 3 * niter times in a cell: once for the     *)
(* first energy, then twice by the optimizer and once by callback_fn in   *)
(* each iteration                                                         *)
EvalsPerCell == 1 + 3 * MaxIter

NoLast == [cell |-> 0, ansatz |-> 0, device |-> 0, func |-> 0, angle |-> "none"]

NoiseIdle ==
    n_pc = 0 /\ n_cell = 0 /\ n_env = <<>> /\ n_iter = 0 /\ n_last = NoLast

(* A fresh kernel: nothing bound; the QNode's captured function and       *)
(* device are kept under "cost_spsa.func" and "cost_spsa.device"          *)
NoiseStart ==
    /\ n_pc = 1 /\ n_cell = 1 /\ n_iter = 0 /\ n_last = NoLast
    /\ n_env = [name \in NoiseNames \cup {"cost_spsa.func", "cost_spsa.device"} |-> 0]

NoiseStmt == NoiseCells[n_cell][n_pc]

NoiseFrame ==
    UNCHANGED <<oracleVars, storeVars, groverVars, amodVars, shorVars, hhlVars, qaoaVars,
                maxcutVars, psuccessVars, financeVars, errVars, expectVars, qpeVars>>

(* def <name>(...): ... or dev = qml.device(...): the name is rebound *)
NoiseBind ==
    /\ n_cell \in 1 .. 3
    /\ NoiseStmt.kind \in {"def", "assign"}
    /\ n_env' = [n_env EXCEPT ![NoiseStmt.name] = NoiseStmt.line]
    /\ n_pc' = n_pc + 1
    /\ UNCHANGED <<n_cell, n_iter, n_last>>
    /\ NoiseFrame

(* cost_spsa = qml.QNode(exp_val_circuit, dev): the QNode keeps the       *)
(* function and device objects the two names are bound to now             *)
NoiseQNode ==
    /\ n_cell \in 1 .. 3
    /\ NoiseStmt.kind = "qnode"
    /\ n_env' = [n_env EXCEPT ![NoiseStmt.name] = NoiseStmt.line,
                              !["cost_spsa.func"] = n_env["exp_val_circuit"],
                              !["cost_spsa.device"] = n_env["dev"]]
    /\ n_pc' = n_pc + 1
    /\ UNCHANGED <<n_cell, n_iter, n_last>>
    /\ NoiseFrame

(* wrapped_cost(params): cost_spsa is looked up, its function runs, and   *)
(* that function looks up the global name circuit when it is called       *)
NoiseEval ==
    /\ n_cell \in 1 .. 3
    /\ NoiseStmt.kind = "run"
    /\ n_iter < EvalsPerCell
    /\ \E draw \in RandDraws :
         n_last' = [cell |-> n_cell,
                    ansatz |-> n_env["circuit"],
                    device |-> n_env["cost_spsa.device"],
                    func |-> n_env["cost_spsa.func"],
                    angle |-> IF AnsatzHasRx(n_env["circuit"]) THEN draw ELSE "none"]
    /\ n_iter' = n_iter + 1
    /\ UNCHANGED <<n_pc, n_cell, n_env>>
    /\ NoiseFrame

(* minimizeSPSA returns, the cell prints its result, the next cell runs *)
NoiseNextCell ==
    /\ n_cell \in 1 .. 2
    /\ NoiseStmt.kind = "run"
    /\ n_iter = EvalsPerCell
    /\ n_cell' = n_cell + 1
    /\ n_pc' = 1
    /\ n_iter' = 0
    /\ UNCHANGED <<n_env, n_last>>
    /\ NoiseFrame

NoiseNext == NoiseBind \/ NoiseQNode \/ NoiseEval \/ NoiseNextCell

---------------------------------------------------------------------------
(* qpe_amod15: the controlled gates on a basis pattern                     *)

(* "for q in range(n_count): qc.append(c_amod15(a, 2**q), [q] + ...)":    *)
(* the controlled gates in the order they are appended, each with its      *)
(* power and its control qubit                                             *)
QpeGates == [i \in 1 .. NCount |-> [power |-> Pow(2, i - 1), ctrl |-> i - 1]]

QpeIdle == x_a = 0 /\ x_x = 0 /\ x_q = 0 /\ x_reg = 0 /\ x_pc = "idle"

(* A basis pattern of the counting qubits; the target qubits are |0000> *)
QpeStart ==
    /\ x_a \in 2 .. (N - 1)
    /\ x_x \in 0 .. (Pow(2, NCount) - 1)
    /\ x_q = 0 /\ x_reg = 0 /\ x_pc = "prepare"

QpeFrame ==
    UNCHANGED <<x_a, x_x, oracleVars, storeVars, groverVars, amodVars, shorVars, hhlVars,
                qaoaVars, maxcutVars, psuccessVars, financeVars, errVars, expectVars,
                noiseVars>>

(* qc.x(3+n_count): the target register, bit i of x_reg being gate qubit i *)
QpePrepare ==
    /\ x_pc = "prepare"
    /\ x_reg' = ApplyBasis(X(3), x_reg)
    /\ x_pc' = "gates"
    /\ UNCHANGED x_q
    /\ QpeFrame

(* c_amod15 raises ValueError while the first gate is built *)
QpeRaise ==
    /\ x_pc = "gates"
    /\ x_a \notin ValidA
    /\ x_pc' = "error"
    /\ UNCHANGED <<x_q, x_reg>>
    /\ QpeFrame

(* The next controlled gate acts: U^(2^q) on the target if its control is 1 *)
QpeGate ==
    /\ x_pc = "gates"
    /\ x_a \in ValidA
    /\ x_q < NCount
    /\ LET g == QpeGates[x_q + 1] IN
         x_reg' = IF ((x_x \div Pow(2, g.ctrl)) % 2) = 1
                  THEN RunTimes(AmodIteration(x_a), g.power, x_reg)
                  ELSE x_reg
    /\ x_q' = x_q + 1
    /\ x_pc' = IF x_q + 1 = NCount THEN "done" ELSE "gates"
    /\ QpeFrame

QpeNext == QpePrepare \/ QpeRaise \/ QpeGate

---------------------------------------------------------------------------
(* Specifications *)

(* The oracle applied to a basis state *)
OracleInit ==
    OracleStart /\ StoreInit /\ caught = <<>> /\ GroverIdle /\ AmodIdle /\ ShorIdle /\ HhlIdle /\ QaoaIdle /\ MaxcutIdle
    /\ PsuccessIdle /\ FinanceIdle /\ ExpectIdle /\ NoiseIdle /\ QpeIdle

SpecOracle == OracleInit /\ [][OracleNext]_vars

(* The Grover notebook run cell by cell *)
GroverInit ==
    GroverStart /\ StoreInit /\ caught = <<>> /\ OracleIdle /\ AmodIdle /\ ShorIdle /\ HhlIdle /\ QaoaIdle /\ MaxcutIdle
    /\ PsuccessIdle /\ FinanceIdle /\ ExpectIdle /\ NoiseIdle /\ QpeIdle

SpecGrover == GroverInit /\ [][GroverNext]_vars

(* Either of the two: the oracle on a basis state, or the notebook run *)
SpecOracleGrover == (OracleInit \/ GroverInit) /\ [][OracleNext \/ GroverNext]_vars

(* c_amod15 applied to a value of the 4-qubit register *)
AmodInit ==
    AmodStart /\ StoreInit /\ caught = <<>> /\ OracleIdle /\ GroverIdle /\ ShorIdle /\ HhlIdle /\ QaoaIdle /\ MaxcutIdle
    /\ PsuccessIdle /\ FinanceIdle /\ ExpectIdle /\ NoiseIdle /\ QpeIdle

SpecAmod == AmodInit /\ [][AmodNext]_vars

(* The factor-finding loop *)
ShorInit ==
    ShorStart /\ StoreInit /\ caught = <<>> /\ OracleIdle /\ GroverIdle /\ AmodIdle /\ HhlIdle /\ QaoaIdle /\ MaxcutIdle
    /\ PsuccessIdle /\ FinanceIdle /\ ExpectIdle /\ NoiseIdle /\ QpeIdle

SpecShor == ShorInit /\ [][ShorNext]_vars

(* The loop runs on, and a measurement with non-zero phase eventually occurs *)
SpecShorFair ==
    /\ ShorInit
    /\ [][ShorNext]_vars
    /\ WF_vars(ShorNext)
    /\ SF_vars(ShorQpeNonZero)

(* The circuits of the notebooks: the Grover cells followed by the QAOA     *)
(* cells, or the HHL notebook                                              *)
HhlInit ==
    HhlStart /\ StoreInit /\ caught = <<>> /\ OracleIdle /\ GroverIdle /\ AmodIdle /\ ShorIdle /\ QaoaIdle /\ MaxcutIdle
    /\ PsuccessIdle /\ FinanceIdle /\ ExpectIdle /\ NoiseIdle /\ QpeIdle

SpecCircuits == (GroverInit \/ HhlInit) /\ [][GroverNext \/ QaoaNext \/ HhlNext]_vars

(* maxcut_obj applied to a graph and a bitstring *)
MaxcutInit ==
    MaxcutStart /\ StoreInit /\ caught = <<>> /\ OracleIdle /\ GroverIdle /\ AmodIdle /\ ShorIdle /\ HhlIdle /\ QaoaIdle
    /\ PsuccessIdle /\ FinanceIdle /\ ExpectIdle /\ NoiseIdle /\ QpeIdle

SpecMaxcut == MaxcutInit /\ [][MaxcutNext]_vars

(* get_psuccess applied to a counts mapping *)
PsuccessInit ==
    /\ PsuccessStart /\ StoreInit /\ caught = <<>>
    /\ OracleIdle /\ GroverIdle /\ AmodIdle /\ ShorIdle /\ HhlIdle /\ QaoaIdle
    /\ MaxcutIdle /\ FinanceIdle /\ ExpectIdle /\ NoiseIdle /\ QpeIdle

SpecPsuccess == PsuccessInit /\ [][PsuccessNext]_vars

(* The financial-data cell *)
FinanceInit ==
    /\ FinanceStart /\ StoreInit /\ caught = <<>>
    /\ OracleIdle /\ GroverIdle /\ AmodIdle /\ ShorIdle /\ HhlIdle /\ QaoaIdle
    /\ MaxcutIdle /\ PsuccessIdle /\ ExpectIdle /\ NoiseIdle /\ QpeIdle

(* The places where the source raises or handles an error: the             *)
(* financial-data cell, get_psuccess, c_amod15                             *)
SpecErrors ==
    /\ (FinanceInit \/ PsuccessInit \/ AmodInit)
    /\ [][FinanceNext \/ PsuccessNext \/ AmodNext]_vars

(* The controlled gates of qpe_amod15 on a basis pattern *)
QpeInit ==
    /\ QpeStart /\ StoreInit /\ caught = <<>>
    /\ OracleIdle /\ GroverIdle /\ AmodIdle /\ ShorIdle /\ HhlIdle /\ QaoaIdle
    /\ MaxcutIdle /\ PsuccessIdle /\ FinanceIdle /\ ExpectIdle /\ NoiseIdle

SpecQpe == QpeInit /\ [][QpeNext]_vars

(* compute_expectation applied to a counts mapping and a graph *)
ExpectInit ==
    /\ ExpectStart /\ StoreInit /\ caught = <<>>
    /\ OracleIdle /\ GroverIdle /\ AmodIdle /\ ShorIdle /\ HhlIdle /\ QaoaIdle
    /\ MaxcutIdle /\ PsuccessIdle /\ FinanceIdle /\ NoiseIdle /\ QpeIdle

SpecExpect == ExpectInit /\ [][ExpectNext]_vars

(* The three optimisation cells of the noise notebook, run in order *)
NoiseInit ==
    /\ NoiseStart /\ StoreInit /\ caught = <<>>
    /\ OracleIdle /\ GroverIdle /\ AmodIdle /\ ShorIdle /\ HhlIdle /\ QaoaIdle
    /\ MaxcutIdle /\ PsuccessIdle /\ FinanceIdle /\ ExpectIdle /\ QpeIdle

SpecNoise == NoiseInit /\ [][NoiseNext]_vars

---------------------------------------------------------------------------
(* Claims about the oracle *)

OutputFlipped == Bit(o_basis, CircuitOutput(o_n)) # Bit(o_init, CircuitOutput(o_n))

(* C1 (as claimed): for every n >= 3 and every formula of 1 to 3 clauses  *)
(* over distinct variables in 1..n, on a basis input with aux = 0 and     *)
(* output = 0 the oracle flips the output qubit iff every clause has      *)
(* exactly one true literal.                                              *)
C1_OracleMarksExactlyOne ==
    (o_pc = "done" /\ DistinctVars(o_formula)
        /\ Bit(o_init, CircuitOutput(o_n)) = 0)
    => (OutputFlipped <=> ExactlyOne(o_formula, InputOf(o_init, o_n)))

AuxZero(b) == b \div Pow2[N1 + 1] = 0

(* The instruction counts at which an oracle application of cell 1 starts *)
OracleStarts ==
    {Len(InputState(N1))
        + r * (Len(Oracle(NotebookFormula, N1)) + Len(PhaseAmplification(N1))) :
     r \in 0 .. (T1 - 1)}

(* C2: after the oracle returns, every input qubit and every aux qubit    *)
(* (the ancilla aux[num_clauses] included) has the value it had before    *)
(* the call: only the output qubit can differ.  Hence, in the run of the  *)
(* driver cell, the aux register is all 0 (in every basis state of        *)
(* nonzero amplitude) before each of the T oracle applications.           *)
C2_OracleRestoresWorkspace ==
    /\ o_pc = "done" => o_basis \in {o_init, Flip(o_init, CircuitOutput(o_n))}
    /\ (g_pc = "running" /\ g_step \in OracleStarts)
        => \A b \in Basis : g_amp[b] # 0 => AuxZero(b)

(* C2 witness: a three-clause formula with a repeated variable whose      *)
(* output was flipped and whose aux qubits were in use before the mark.   *)
C2_Witness ==
    /\ o_pc = "done"
    /\ Len(o_formula) = 3
    /\ ~DistinctVars(o_formula)
    /\ OutputFlipped
    /\ o_basis = Flip(o_init, CircuitOutput(o_n))

(* C5: of the 8 assignments of the notebook formula exactly one (x1 = 1,  *)
(* x2 = 0, x3 = 1) satisfies the exactly-one condition in all three       *)
(* clauses, and it is the only basis input on which the oracle flips the  *)
(* output qubit.                                                          *)
C5_NotebookFormulaOneSolution ==
    /\ Cardinality({x \in 0 .. 7 : ExactlyOne(NotebookFormula, x)}) = 1
    /\ (o_pc = "done" /\ o_n = 3 /\ o_formula = NotebookFormula)
        => (OutputFlipped <=> InputOf(o_init, o_n) = 5)

C5_Witness ==
    /\ o_pc = "done" /\ o_n = 3 /\ o_formula = NotebookFormula
    /\ InputOf(o_init, o_n) = 5 /\ OutputFlipped

---------------------------------------------------------------------------
(* Claims about the Grover driver cell *)

Cell1Circuit == circs[<<"grover", 1>>]

(* C3: the driver builds the circuit in this order: input_state once,     *)
(* then exactly T rounds of oracle followed by phase_amplification, then  *)
(* one measurement of input qubit j into classical bit j for j = 0..n-1;  *)
(* no measurement is appended before the last amplification round.       *)
C3_GroverBuildOrder ==
    g_cell = 1 =>
      /\ g_pc \in {"execute", "running", "done"} =>
            /\ g_calls = <<"input_state">>
                    \o Repeat(<<"oracle", "phase_amplification">>, 3)
                    \o <<"measure", "measure", "measure">>
            /\ Cell1Circuit = InputState(3)
                    \o Repeat(Oracle(NotebookFormula, 3) \o PhaseAmplification(3), 3)
                    \o <<Measure(0, 0), Measure(1, 1), Measure(2, 2)>>
      /\ (g_pc \notin {"idle", "create"} /\ Measures(Cell1Circuit) # {}) =>
            /\ g_t = 3
            /\ Len(SelectSeq(g_calls, LAMBDA c : c = "phase_amplification")) = 3

C3_Witness ==
    /\ g_cell = 1 /\ g_pc = "execute"
    /\ Len(Cell1Circuit) > 0
    /\ Cell1Circuit[Len(Cell1Circuit)] = Measure(2, 2)

(* C4: with n = 3, the notebook formula and T = 3 rounds, the satisfying  *)
(* assignment (x1, x2, x3) = (1, 0, 1), outcome 5, has a measurement      *)
(* probability strictly greater than each of the 7 other assignments.     *)
C4_SolutionIsSpotted ==
    g_prob # <<>> => \A y \in 0 .. 7 : y # 5 => g_prob[5] > g_prob[y]

C4_Witness ==
    /\ g_pc = "done" /\ g_cell = 1
    /\ g_step = Len(Cell1Circuit)
    /\ g_prob[5] > 0
    /\ \E y \in 0 .. 7 : y # 5 /\ g_prob[y] > 0

---------------------------------------------------------------------------
(* Claims about the Shor notebook *)

(* C7 (as claimed): for every a in {2,4,7,8,11,13}, every power >= 0 and  *)
(* every register value y in 0..14, the gate sequence of                  *)
(* c_amod15(a, power) maps |y> to |(a^power * y) mod 15>.                 *)
C7_AmodMultiplies ==
    (am_pc = "done" /\ am_y \in 0 .. 14)
    => am_out = (Pow(am_a, am_power) * am_y) % 15

(* What does hold: the same on the values y in 1..14 *)
AmodMultipliesNonZero ==
    (am_pc = "done" /\ am_y \in 1 .. 14)
    => am_out = (Pow(am_a, am_power) * am_y) % 15

(* C8: for every a in {2,4,7,8,11,13}, if a measurement with non-zero     *)
(* phase eventually occurs, the loop "while not factor_found" eventually  *)
(* terminates with factor_found = True.                                   *)
C8_ShorLoopTerminates ==
    (s_a \in ValidA) => <>(s_pc = "done" /\ factor_found)

(* C8 witness: the loop has ended after a retry (a zero phase came first) *)
C8_Witness ==
    /\ s_pc = "done" /\ factor_found /\ attempt >= 2 /\ s_reading # 0

(* C9: factor_found becomes True only in an iteration that reports a      *)
(* guess g with g not in {1, 15} and 15 mod g = 0, so every factor        *)
(* reported as non-trivial is 3 or 5; while factor_found is False no      *)
(* factor has been reported.                                              *)
C9_FactorFoundOnlyOnReport ==
    /\ \A i \in 1 .. Len(s_reported) : s_reported[i] \in {3, 5}
    /\ factor_found <=> s_reported # <<>>
    /\ factor_found =>
          \E i \in 1 .. Len(s_guesses) :
              /\ s_guesses[i] \notin {1, 15} /\ 15 % s_guesses[i] = 0
              /\ \E k \in 1 .. Len(s_reported) : s_reported[k] = s_guesses[i]

C9_Witness ==
    /\ factor_found /\ s_pc = "loop"
    /\ s_guesses = <<1, 3>> /\ s_reported = <<3>>

---------------------------------------------------------------------------
(* Claims about circuits and the Max-Cut objective *)

(* C6: once a circuit has been handed to the backend (execute,            *)
(* backend.run, transpile), no instruction is ever appended to that same  *)
(* circuit by any later step or cell.                                     *)
C6_HandedCircuitsImmutable ==
    [][\A id \in handed : id \in DOMAIN circs' /\ circs'[id] = circs[id]]_vars

(* C6 witness: hhl went to execute and to transpile, mapped_circuit to    *)
(* backend.run, and the cells after each handoff have run.                *)
C6_Witness ==
    /\ h_pc = "end"
    /\ {HhlObj, MappedObj} \subseteq handed
    /\ Len(circs[HhlObj]) > 0
    /\ circs[MappedObj] = circs[HhlObj]

CutEdges(x, G) ==
    Cardinality({e \in 1 .. Len(G.edges) : x[G.edges[e][1] + 1] # x[G.edges[e][2] + 1]})

(* C10 (as claimed): maxcut_obj(x, G) returns the number of edges (i, j)  *)
(* of G with x[i] != x[j].                                                *)
C10_MaxcutObjCountsCutEdges ==
    m_pc = "done" => m_obj = CutEdges(m_x, m_G)

(* What does hold: the value returned is minus that number *)
MaxcutObjIsMinusCut ==
    m_pc = "done" => m_obj = -CutEdges(m_x, m_G)

MaxCutStrings == {<<"0", "1", "0", "1">>, <<"1", "0", "1", "0">>}

(* C11: for the 4-node cycle graph of the notebook, among all 16          *)
(* bitstrings the number of cut edges (the size of the value maxcut_obj   *)
(* returns) is 4 exactly for "0101" and "1010", and less than 4 for every *)
(* other bitstring.                                                       *)
C11_CycleMaxCut ==
    (m_pc = "done" /\ m_G = CycleGraph) =>
        /\ CutEdges(m_x, m_G) = -m_obj
        /\ m_x \in MaxCutStrings => -m_obj = 4
        /\ m_x \notin MaxCutStrings => -m_obj < 4

(* C11 witness: maxcut_obj has been evaluated on "0101" for the cycle *)
C11_Witness ==
    /\ m_pc = "done" /\ m_G = CycleGraph
    /\ m_x = <<"0", "1", "0", "1">> /\ m_obj = -4

---------------------------------------------------------------------------
(* Claims about get_psuccess and error handling *)

CountOf(counts, key) == IF key \in DOMAIN counts THEN counts[key] ELSE 0

(* C12: for every mapping counts from 2-bit strings to non-negative       *)
(* integers (any subset of keys present, also none) get_psuccess returns  *)
(* without raising; the value is counts['01'] / (counts['01'] +           *)
(* counts['11']) with a missing key counted as 0, and 0 when that         *)
(* denominator is 0.                                                      *)
C12_GetPsuccessTotal ==
    /\ p_pc # "raised"
    /\ p_pc = "done" =>
         LET c01 == CountOf(p_counts, "01")
             c11 == CountOf(p_counts, "11") IN
         /\ p_value[2] # 0
         /\ IF c01 + c11 = 0 THEN p_value[1] = 0
            ELSE p_value[1] * (c01 + c11) = c01 * p_value[2]

(* C12 witness: get_psuccess returned 0 on a mapping without the keys     *)
(* '01' and '11'                                                          *)
C12_Witness ==
    /\ p_pc = "done"
    /\ "01" \notin DOMAIN p_counts /\ "11" \notin DOMAIN p_counts
    /\ p_value[1] = 0
    /\ Len(caught) = 3

(* C13: when the data fetch of the financial-data cell raises             *)
(* QiskitFinanceError, the exception is caught, the exception text and    *)
(* then 'Error retrieving data.' are printed in that order, and the cell  *)
(* finishes normally instead of propagating the error.                    *)
C13_FinanceErrorCaught ==
    f_fetch.type = "QiskitFinanceError" =>
        /\ f_pc # "raised"
        /\ f_pc = "except" => <<"data_fetch", "QiskitFinanceError">> = caught[Len(caught)]
        /\ f_pc = "done" => f_out = <<f_fetch.text, "Error retrieving data.">>

(* C13 witness: the cell has finished after the fetch raised *)
C13_Witness ==
    /\ f_fetch.type = "QiskitFinanceError"
    /\ f_pc = "done"
    /\ Len(f_out) = 2 /\ f_out[2] = "Error retrieving data."

(* C14 (as claimed): the QiskitFinanceError handler around the data fetch *)
(* is the only place where an operation catches an error and converts it  *)
(* into a normal outcome.                                                 *)
C14_SingleCatch ==
    \A i \in 1 .. Len(caught) : caught[i] = <<"data_fetch", "QiskitFinanceError">>

(* C14 (amended): errors are caught and converted into a normal outcome   *)
(* in two places only, the QiskitFinanceError handler around the data     *)
(* fetch and the KeyError and ZeroDivisionError handlers of get_psuccess; *)
(* any other error, such as the ValueError of c_amod15, propagates.       *)
C14_CatchSites ==
    /\ \A i \in 1 .. Len(caught) :
          caught[i] \in {<<"data_fetch", "QiskitFinanceError">>,
                         <<"get_psuccess", "KeyError">>,
                         <<"get_psuccess", "ZeroDivisionError">>}
    /\ am_pc = "error" => caught = <<>>
    /\ (am_pc = "done" => am_a \in ValidA)
    /\ f_pc = "raised" => (f_fetch.type = "TypeError" /\ caught = <<>>)

(* C14 witness: get_psuccess has handled a missing key, and returned *)
C14_Witness ==
    /\ p_pc = "done"
    /\ \E i \in 1 .. Len(caught) : caught[i] = <<"get_psuccess", "KeyError">>

---------------------------------------------------------------------------
(* Claims about the stages of the oracle *)

EachVarOnce(formula) ==
    \A k \in 1 .. Len(formula) :
        {Abs(formula[k][1]), Abs(formula[k][2]), Abs(formula[k][3])} = {1, 2, 3}

AllAuxSet ==
    \A k \in 1 .. Len(o_formula) : Bit(o_basis, Aux(o_n, k - 1)) = 1

(* C15: for n = 3 and every formula of 1 to 3 clauses whose clauses name  *)
(* each of the variables 1, 2, 3 exactly once (any signs), after the      *)
(* first clause loop aux[k] = 1 iff exactly one literal of clause k is    *)
(* true, and the marking step flips the output qubit iff all              *)
(* aux[0 .. num_clauses - 1] are 1.                                       *)
C15_OracleStages ==
    (o_n = 3 /\ EachVarOnce(o_formula)) =>
        /\ o_pc = "computed" =>
              /\ \A k \in 1 .. Len(o_formula) :
                    Bit(o_basis, Aux(o_n, k - 1)) = 1
                        <=> TrueCount(o_formula[k], InputOf(o_init, o_n)) = 1
        /\ o_pc = "marked" => (OutputFlipped <=> AllAuxSet)

(* C15 witness: a two-clause formula, one clause in another variable      *)
(* order, whose aux qubits are both 1 and whose output has been flipped   *)
C15_Witness ==
    /\ o_n = 3 /\ EachVarOnce(o_formula) /\ Len(o_formula) = 2
    /\ o_formula[2] \notin SignedClauses
    /\ o_pc = "marked" /\ AllAuxSet /\ OutputFlipped

---------------------------------------------------------------------------
(* Claims about qpe_amod15 and the factor-finding iteration *)

RECURSIVE PowMod(_, _, _)
PowMod(b, e, modulus) == IF e = 0 THEN 1 % modulus ELSE (b * PowMod(b, e - 1, modulus)) % modulus

(* C16: the controlled gates c_amod15(a, 2^q) are appended for q = 0..7   *)
(* in increasing order, each controlled by counting qubit q; for every a  *)
(* in {2,4,7,8,11,13} and every basis pattern x in 0..255 of the counting *)
(* qubits, the target register prepared as 1 holds (a^x) mod 15 after all *)
(* eight gates, and after every prefix of them a value coprime to 15.     *)
C16_ModularExponentiation ==
    /\ \A i \in 1 .. NCount : QpeGates[i] = [power |-> Pow(2, i - 1), ctrl |-> i - 1]
    /\ (x_a \in ValidA /\ x_pc \in {"gates", "done"}) =>
          /\ Rev4(x_reg) = PowMod(x_a, x_x % Pow(2, x_q), 15)
          /\ Gcd(Rev4(x_reg), 15) = 1
          /\ Rev4(x_reg) \notin {0, 15}
          /\ x_pc = "done" => (x_q = 8 /\ Rev4(x_reg) = PowMod(x_a, x_x, 15))

(* C16 witness: all eight gates have run on a pattern with the highest    *)
(* and the lowest counting qubit set, and the register holds a value      *)
(* other than 1                                                           *)
C16_Witness ==
    /\ x_pc = "done" /\ x_a = 7 /\ x_x = 129
    /\ Rev4(x_reg) = 7

(* C17: for every a in {2,4,7,8,11,13} of order r0 mod 15 and every       *)
(* measured phase s/r0 with 1 <= s < r0, the iteration computes r as the  *)
(* denominator of the phase limited to 15, at least one of                *)
(* gcd(a^(r//2) - 1, 15), gcd(a^(r//2) + 1, 15) is 3 or 5, and            *)
(* factor_found is set in that same iteration, also when r is a proper    *)
(* divisor of r0; an iteration leaves factor_found False only when the    *)
(* phase is 0.                                                            *)
C17_NonZeroMeasurementSucceeds ==
    /\ [](s_pc = "check" =>
            /\ (s_reading * Order[s_a]) % Pow(2, NCount) = 0
            /\ s_r = Pow(2, NCount) \div Gcd(s_reading, Pow(2, NCount))
            /\ s_r <= N /\ Order[s_a] % s_r = 0)
    /\ [][s_pc = "check" =>
            /\ s_reading # 0 =>
                  /\ factor_found'
                  /\ \E i \in 1 .. 2 : s_guesses'[i] \in {3, 5}
                  /\ s_guesses' = <<Gcd(Pow(s_a, s_r \div 2) - 1, 15),
                                    Gcd(Pow(s_a, s_r \div 2) + 1, 15)>>
            /\ ~factor_found' => s_reading = 0]_vars

(* C17 witness: an iteration with phase 1/2 for a of order 4 (r = 2, a    *)
(* proper divisor of the order) has set factor_found                      *)
C17_Witness ==
    /\ s_a = 7 /\ s_reading = 128 /\ s_r = 2 /\ Order[s_a] = 4
    /\ s_pc = "loop" /\ factor_found /\ attempt = 1

---------------------------------------------------------------------------
(* Claims about compute_expectation and the noise notebook *)

RECURSIVE TotalCount(_, _)
TotalCount(items, K) ==
    IF K = {} THEN 0
    ELSE LET k == CHOOSE k \in K : TRUE IN items[k][2] + TotalCount(items, K \ {k})

RECURSIVE WeightedObj(_, _, _)
WeightedObj(items, G, K) ==
    IF K = {} THEN 0
    ELSE LET k == CHOOSE k \in K : TRUE IN
         items[k][2] * MaxcutObj(Reverse(items[k][1]), G) + WeightedObj(items, G, K \ {k})

(* C18: for every non-empty counts with positive total,                   *)
(* compute_expectation(counts, G) * sum(counts) equals the sum over the   *)
(* bitstrings b of counts[b] * maxcut_obj(reverse(b), G), reverse(b)      *)
(* being b read right to left, so that character i of the evaluated       *)
(* string belongs to node i.                                              *)
C18_ExpectationIsWeightedMean ==
    LET K == DOMAIN e_counts
        total == TotalCount(e_counts, K) IN
    /\ (e_pc = "done" /\ total > 0) =>
          /\ e_value[2] # 0
          /\ e_value[1] * total = WeightedObj(e_counts, e_G, K) * e_value[2]
    /\ (e_pc \in {"done", "raised"} /\ total > 0) => e_pc = "done"
    /\ \A b \in Bitstrings(2) : \A i \in 1 .. 2 : Reverse(b)[i] = b[3 - i]

(* C18 witness: an expectation over two bitstrings whose reversals differ *)
(* from them, on a graph where the reversal changes the objective         *)
C18_Witness ==
    /\ e_pc = "done" /\ Len(e_counts) = 2
    /\ e_counts[1][2] > 0 /\ e_counts[2][2] > 0
    /\ MaxcutObj(e_counts[1][1], e_G) # MaxcutObj(Reverse(e_counts[1][1]), e_G)
    /\ e_value[1] < 0

(* C19: running the cells in order, the CX-depolarizing cell rebinds dev, *)
(* exp_val_circuit, cost_spsa, wrapped_cost and callback_fn but leaves    *)
(* the global name circuit unchanged, so the ansatz evaluated in the      *)
(* CX-depolarizing run is the one defined in the random-noise cell, with  *)
(* its RX noise rotations, not the noise-free ansatz of the first run.    *)
C19_CxRunUsesRandomNoiseAnsatz ==
    /\ n_cell = 3 => n_env["circuit"] = 139
    /\ (n_cell = 3 /\ NoiseCells[n_cell][n_pc].kind = "run") =>
          /\ n_env["dev"] = 211 /\ n_env["exp_val_circuit"] = 213
          /\ n_env["cost_spsa"] = 218 /\ n_env["wrapped_cost"] = 221
          /\ n_env["callback_fn"] = 224
    /\ n_last.cell = 3 =>
          /\ n_last.ansatz = 139 /\ n_last.ansatz # 79
          /\ n_last.angle \in RandDraws
          /\ n_last.device = 211 /\ n_last.func = 213
    /\ n_last.cell = 1 => (n_last.ansatz = 79 /\ n_last.angle = "none")

(* C19 witness: the cost has been evaluated in the CX-depolarizing cell *)
C19_Witness ==
    /\ n_cell = 3 /\ n_last.cell = 3 /\ n_iter = EvalsPerCell
    /\ n_last.ansatz = 139 /\ n_last.device = 211

=============================================================================
